---- MODULE Spec2Model ----
(***************************************************************************)
(* A model of chatti: the terminal UI state machine (src/ui/state.rs,      *)
(* src/ui/input_handler.rs, src/ui/chat.rs), the response loop and the     *)
(* ingestion task (src/main.rs).                                           *)
(*                                                                         *)
(* Text is a sequence of one-character strings.  A message is the pair     *)
(* <<role, content>> of the Rust Vec<(String, String)>.                    *)
(*                                                                         *)
(* The response body of the streaming path is a sequence of symbols:       *)
(*   "a", "b"  a character of the line's message.content string            *)
(*   "D"       the member "done": true                                     *)
(*   NL        the newline byte                                            *)
(* A line parses (serde_json::from_str is Ok) iff it is non-empty and has  *)
(* "D" at most once, in last place: the empty line and "Da" are malformed. *)
(* Its message.content is present iff it has a content character.          *)
(***************************************************************************)
EXTENDS Integers, Sequences, FiniteSets, TLC

\* ---------------------------------------------------------------- bounds
MaxTurns == 1
MaxBytes == 4
MaxInput == 1
MaxKeys == 3
MaxFrames == 11
MaxPaneWidth == 8

MaxText == 3
MaxWidth == 6
MaxLines == 12

MaxMsgs == 3

TermInputWidth == 1

\* ------------------------------------------------------ program constants
ChannelCapacity == 100

NL == "\n"
ContentBytes == {"a", "b"}
Bytes == ContentBytes \cup {"D", NL}

Chars == {"q", "?", "e", "a"}
Keys == Chars \cup {"Enter", "Esc", "Backspace", "Left", "Right", "Up", "Down", "Tab"}
NoKey == "NoKey"

Generating_other == <<"Thinking...">>

\* the content of the placeholder handle_editing_mode pushes
Generating == <<"Generating...">>
RequestCancelled == <<"Request cancelled">>

Turns == 1..MaxTurns

\* --------------------------------------------------------------- helpers
Last(s) == s[Len(s)]
Front(s) == SubSeq(s, 1, Len(s) - 1)
Pop_nothing(s) == s

\* Vec::pop and String::pop, for what they leave
Pop(s) == IF s = <<>> THEN s ELSE Front(s)
SatSub(a, b) == IF a >= b THEN a - b ELSE 0
Min(a, b) == IF a <= b THEN a ELSE b

RECURSIVE Concat(_)
Concat(ss) == IF ss = <<>> THEN <<>> ELSE Head(ss) \o Concat(Tail(ss))

\* ------------------------------------------------------ src/ui/state.rs
StateNew ==
    [ current_response |-> <<>>,
      horizontal_scroll |-> 0,
      input |-> <<>>,
      input_mode |-> "Normal",
      input_width |-> 0,
      selected |-> 0,
      messages |-> <<>>,
      show_toggle |-> FALSE,
      quit |-> FALSE ]

scroll_up(s) == [s EXCEPT !.selected = SatSub(s.selected, 1)]

scroll_down_unclamped(s) == [s EXCEPT !.selected = s.selected + 1]

scroll_down(s) ==
    [s EXCEPT !.selected = Min(s.selected + 1, SatSub(Len(s.messages), 1))]

update_response_forgets(s, new_content) ==
    IF s.input_mode = "Waiting"
    THEN [s EXCEPT !.current_response = new_content,
                   !.messages = IF s.messages # <<>> /\ Last(s.messages)[1] = "assistant"
                                THEN [s.messages EXCEPT ![Len(s.messages)] = <<"assistant", new_content>>]
                                ELSE Append(s.messages, <<"assistant", new_content>>)]
    ELSE s

\* An update_response that accumulates in every mode.
update_response_any_mode(s, new_content) ==
    LET cr == s.current_response \o new_content
        msgs == IF s.messages # <<>> /\ Last(s.messages)[1] = "assistant"
                THEN [s.messages EXCEPT ![Len(s.messages)] = <<"assistant", cr>>]
                ELSE Append(s.messages, <<"assistant", cr>>)
    IN  [s EXCEPT !.current_response = cr, !.messages = msgs]

update_response(s, new_content) ==
    IF s.input_mode = "Waiting"
    THEN LET cr == s.current_response \o new_content
             msgs == IF s.messages # <<>> /\ Last(s.messages)[1] = "assistant"
                     THEN [s.messages EXCEPT ![Len(s.messages)] = <<"assistant", cr>>]
                     ELSE Append(s.messages, <<"assistant", cr>>)
         IN  \* is_at_bottom re-selects the index already selected
             [s EXCEPT !.current_response = cr, !.messages = msgs]
    ELSE s

AddResponsePopped_one(s) ==
    IF s.input_mode = "Waiting" THEN Pop(s.messages) ELSE s.messages

\* the messages add_response keeps: in Waiting mode it pops the last one, and
\* then the ("system", "Generating...") entry when that is now last
AddResponsePopped(s) ==
    IF s.input_mode = "Waiting"
    THEN LET m1 == Pop(s.messages)
         IN  IF m1 # <<>> /\ Last(m1) = <<"system", Generating>> THEN Pop(m1) ELSE m1
    ELSE s.messages

add_response_keeps_accumulator(s, response) ==
    LET msgs == Append(AddResponsePopped(s), <<"assistant", response>>)
    IN  [s EXCEPT !.messages = msgs,
                  !.input_mode = "Normal",
                  !.selected = Len(msgs) - 1,
                  !.horizontal_scroll = 0]

add_response_pops_three(s, response) ==
    LET msgs == Append(Pop(AddResponsePopped(s)), <<"assistant", response>>)
    IN  [s EXCEPT !.messages = msgs,
                  !.input_mode = "Normal",
                  !.current_response = <<>>,
                  !.selected = Len(msgs) - 1,
                  !.horizontal_scroll = 0]

add_response_keeps_selection(s, response) ==
    LET msgs == Append(AddResponsePopped(s), <<"assistant", response>>)
    IN  [s EXCEPT !.messages = msgs,
                  !.input_mode = "Normal",
                  !.current_response = <<>>,
                  !.horizontal_scroll = 0]

add_response(s, response) ==
    LET msgs == Append(AddResponsePopped(s), <<"assistant", response>>)
    IN  [s EXCEPT !.messages = msgs,
                  !.input_mode = "Normal",
                  !.current_response = <<>>,
                  !.selected = Len(msgs) - 1,
                  !.horizontal_scroll = 0]

start_new_response_no_placeholder(s) ==
    [s EXCEPT !.input_mode = "Waiting", !.current_response = <<>>]

start_new_response(s) ==
    [s EXCEPT !.input_mode = "Waiting",
              !.current_response = <<>>,
              !.messages = Append(s.messages, <<"assistant", <<>>>>)]

\* ---------------------------------------------- src/ui/input_handler.rs
\* A handler whose 'q' also leaves the help overlay toggled.
handle_normal_mode_q_toggles(s, key) ==
    CASE key = "q" -> [s EXCEPT !.quit = TRUE, !.show_toggle = ~s.show_toggle]
      [] key = "?" -> [s EXCEPT !.show_toggle = ~s.show_toggle]
      [] key = "e" -> [s EXCEPT !.input_mode = "Editing"]
      [] key = "Up" -> scroll_up(s)
      [] key = "Down" -> scroll_down(s)
      [] OTHER -> s

\* A handler whose 'e' puts the interface into Waiting mode.
handle_normal_mode_e_waits(s, key) ==
    CASE key = "q" -> [s EXCEPT !.quit = TRUE]
      [] key = "?" -> [s EXCEPT !.show_toggle = ~s.show_toggle]
      [] key = "e" -> [s EXCEPT !.input_mode = "Waiting"]
      [] key = "Up" -> scroll_up(s)
      [] key = "Down" -> scroll_down(s)
      [] OTHER -> s

handle_normal_mode(s, key) ==
    CASE key = "q" -> [s EXCEPT !.quit = TRUE]
      [] key = "?" -> [s EXCEPT !.show_toggle = ~s.show_toggle]
      [] key = "e" -> [s EXCEPT !.input_mode = "Editing"]
      [] key = "Up" -> scroll_up(s)
      [] key = "Down" -> scroll_down(s)
      [] OTHER -> s

\* A handler whose Escape also throws the typed text away.
handle_editing_mode_esc_clears(s, key) ==
    CASE key = "Enter" ->
            [ state |-> [s EXCEPT !.input = <<>>,
                                  !.messages = s.messages \o << <<"user", s.input>>,
                                                                 <<"system", Generating>> >>,
                                  !.input_mode = "Waiting",
                                  !.horizontal_scroll = 0],
              ret |-> <<s.input>> ]
      [] key \in Chars ->
            [ state |-> [s EXCEPT !.input = Append(s.input, key)], ret |-> <<>> ]
      [] key = "Backspace" ->
            [ state |-> [s EXCEPT !.input = Pop(s.input)], ret |-> <<>> ]
      [] key = "Esc" ->
            [ state |-> [s EXCEPT !.input_mode = "Normal", !.input = <<>>], ret |-> <<>> ]
      [] key = "Left" ->
            [ state |-> [s EXCEPT !.horizontal_scroll = SatSub(s.horizontal_scroll, 1)],
              ret |-> <<>> ]
      [] key = "Right" ->
            [ state |-> [s EXCEPT !.horizontal_scroll =
                            Min(s.horizontal_scroll + 1, SatSub(Len(s.input), s.input_width))],
              ret |-> <<>> ]
      [] OTHER -> [ state |-> s, ret |-> <<>> ]

\* The pair of the new state and the returned Option<String> (<<>> is None,
\* <<m>> is Some(m)).
handle_editing_mode(s, key) ==
    CASE key = "Enter" ->
            [ state |-> [s EXCEPT !.input = <<>>,
                                  !.messages = s.messages \o << <<"user", s.input>>,
                                                                 <<"system", Generating>> >>,
                                  !.input_mode = "Waiting",
                                  !.horizontal_scroll = 0],
              ret |-> <<s.input>> ]
      [] key \in Chars ->
            [ state |-> [s EXCEPT !.input = Append(s.input, key)], ret |-> <<>> ]
      [] key = "Backspace" ->
            [ state |-> [s EXCEPT !.input = Pop(s.input)], ret |-> <<>> ]
      [] key = "Esc" ->
            [ state |-> [s EXCEPT !.input_mode = "Normal"], ret |-> <<>> ]
      [] key = "Left" ->
            [ state |-> [s EXCEPT !.horizontal_scroll = SatSub(s.horizontal_scroll, 1)],
              ret |-> <<>> ]
      [] key = "Right" ->
            [ state |-> [s EXCEPT !.horizontal_scroll =
                            Min(s.horizontal_scroll + 1, SatSub(Len(s.input), s.input_width))],
              ret |-> <<>> ]
      [] OTHER -> [ state |-> s, ret |-> <<>> ]

\* ------------------------------------------------------- src/ui/chat.rs
\* Renderer::render, as far as it writes the state: the input pane's width.
draw(s) == [s EXCEPT !.input_width = TermInputWidth]

update_never_cancels(s, key) == [ state |-> draw(s), cancel |-> FALSE ]

\* Interface::update: the new state and whether Action::CancelRequest is returned.
update(s, key) ==
    LET d == draw(s)
    IN  IF key = "Esc" /\ d.input_mode = "Waiting"
        THEN [ state |-> [d EXCEPT !.input_mode = "Normal"], cancel |-> TRUE ]
        ELSE [ state |-> d, cancel |-> FALSE ]

\* A Waiting branch that drops the last message on any key.
run_waiting_any_key(s, key) ==
    IF key # NoKey
    THEN [s EXCEPT !.input_mode = "Normal", !.messages = Pop(s.messages)]
    ELSE s

\* A Waiting branch whose Escape takes back the whole turn: the placeholder of
\* the answer, the "Generating..." entry and the user's message.
run_waiting_pops_turn(s, key) ==
    IF key = "Esc"
    THEN [s EXCEPT !.input_mode = "Normal", !.messages = Pop(Pop(Pop(s.messages)))]
    ELSE s

\* Interface::run, the branch taken while input_mode is Waiting.
run_waiting(s, key) ==
    IF key = "Esc"
    THEN [s EXCEPT !.input_mode = "Normal", !.messages = Pop(s.messages)]
    ELSE s

\* ---------------------------------------- src/main.rs: the line decoder
\* buffer.iter().position(|&b| b == b'\n'): 0 when there is none.
RECURSIVE NewlinePos(_, _)
NewlinePos(buf, i) ==
    IF i > Len(buf) THEN 0
    ELSE IF buf[i] = NL THEN i ELSE NewlinePos(buf, i + 1)

\* serde_json::from_str(&line).is_ok()
JsonOk(line) ==
    /\ line # <<>>
    /\ \A i \in 1..Len(line) : line[i] = "D" => i = Len(line)

\* json["message"]["content"].as_str(): <<>> is None, <<c>> is Some(c).
JsonContent(line) ==
    LET c == SelectSeq(line, LAMBDA b : b \in ContentBytes)
    IN  IF c = <<>> THEN <<>> ELSE <<c>>

JsonDone_ignored(line) == FALSE

\* json["done"].as_bool().unwrap_or(false)
JsonDone(line) == Last(line) = "D"

\* The queue items, each with the request whose task made it (history).
OkItem(k, content) == [tag |-> "Ok", val |-> content, from |-> k]
ErrItem(k, kind) == [tag |-> "Err", val |-> <<kind>>, from |-> k]

Enqueue_front(q, item) == <<item>> \o q

\* tx.send(item) on a channel with room and a live receiver
Enqueue(q, item) == Append(q, item)

\* Application::display_message; the ApiError that main.rs constructs is no
\* variant of the enum in error.rs, and stands for itself here.
display_message(kind) ==
    CASE kind = "Network" -> "There was a problem connecting to the server"
      [] kind = "Unexpected" -> "An unexpected error occurred"
      [] OTHER -> kind

\* the text process_response formats for an error item
ErrorText(kind) ==
    <<"Error: ", display_message(kind),
      ", For more details, please check the log file at: ", "chatti.log">>

\* ------------------------------------------------ src/ui/spinner.rs: Spinner
\* Spinner::new's frames, each char as its Unicode scalar value
SpinnerFrames ==
    <<10251, 10265, 10297, 10296, 10300, 10292, 10278, 10279, 10247, 10255>>

SpinnerNew == [frames |-> SpinnerFrames, current |-> 0]

\* #[derive(Default)]: Vec::default() and usize::default()
SpinnerDefault == [frames |-> <<>>, current |-> 0]

\* A next_frame that never advances.
next_frame_stays(s) ==
    IF s.current < Len(s.frames)
    THEN [state |-> s, ret |-> s.frames[s.current + 1], panic |-> FALSE]
    ELSE [state |-> s, ret |-> 0, panic |-> TRUE]

\* let char = self.frames[self.current];
\* self.current = (self.current + 1) % self.frames.len(); char
\* The index panics when it is out of bounds; ret then has no meaning.
next_frame(s) ==
    IF s.current < Len(s.frames)
    THEN [state |-> [s EXCEPT !.current = (s.current + 1) % Len(s.frames)],
          ret |-> s.frames[s.current + 1], panic |-> FALSE]
    ELSE [state |-> s, ret |-> 0, panic |-> TRUE]

\* --------------------------------- src/ui/renderer.rs: Renderer::render
Roles == {"user", "assistant", "system"}
Modes == {"Normal", "Editing", "Waiting"}

\* the prefix drawn before a message of the role
Prefix(role) ==
    CASE role = "user" -> <<"Y", "o", "u", ":", " ">>
      [] role = "assistant" -> <<"A", "I", ":", " ">>
      [] OTHER -> <<>>

\* messages_area.inner(Margin::new(1, 1)).width
InnerWidth(w) == SatSub(w, 2)

\* A usize result: a value n, or a panic, or the value 2^64 - n, which is written
\* with its distance n to 2^64.
Value(n) == [kind |-> "value", n |-> n]
Panicked == [kind |-> "panic", n |-> 0]
Wrapped(n) == [kind |-> "wrapped", n |-> n]

\* The outcomes of the usize subtraction a - b: when b > a, a build with overflow
\* checks panics and a build without them wraps around.
UsizeSub(a, b) == IF a >= b THEN {Value(a - b)} ELSE {Panicked, Wrapped(b - a)}

\* no message has been laid out
NoLayout ==
    [drawn |-> FALSE, inner |-> 0, role |-> "system", mode |-> "Normal",
     available_width |-> Value(0)]

\* ------------------- src/ui/markdown_renderer.rs: MarkdownRenderer
\* The characters of rendered text: "W" stands for a character that takes two
\* columns, "bullet" and "ring" for the two list bullets, "tick" for the
\* backtick around inline code.
MdChars == {"a", " ", "W"}
CharWidth(c) == IF c = "W" THEN 2 ELSE 1

\* span.content.width()
RECURSIVE StrWidth(_)
StrWidth(t) == IF t = <<>> THEN 0 ELSE CharWidth(Head(t)) + StrWidth(Tail(t))

\* the sum of the widths of a line's spans
RECURSIVE LineWidth(_)
LineWidth(spans) ==
    IF spans = <<>> THEN 0 ELSE StrWidth(Head(spans).content) + LineWidth(Tail(spans))

\* split_at_width's split_index: the number of leading characters whose widths
\* sum up to at most width
RECURSIVE SplitIndex(_, _)
SplitIndex(text, width) ==
    IF text = <<>> THEN 0
    ELSE IF CharWidth(Head(text)) > width THEN 0
    ELSE 1 + SplitIndex(Tail(text), width - CharWidth(Head(text)))

split_at_width(text, width) ==
    [chunk |-> SubSeq(text, 1, SplitIndex(text, width)),
     rest |-> SubSeq(text, SplitIndex(text, width) + 1, Len(text))]

RECURSIVE trim_end(_)
trim_end(t) == IF t # <<>> /\ Last(t) = " " THEN trim_end(Front(t)) ELSE t

\* " ".repeat(n)
Spaces(n) == [i \in 1..n |-> " "]

\* ratatui's Style, as far as the renderer sets it
StyleDefault == [fg |-> "none", add |-> {}, sub |-> {}]
add_modifier(st, m) == [st EXCEPT !.add = @ \cup {m}, !.sub = @ \ {m}]

remove_modifier(st, m) == [st EXCEPT !.add = @ \ {m}, !.sub = @ \cup {m}]
CodeStyle == add_modifier([StyleDefault EXCEPT !.fg = "Yellow"], "ITALIC")

\* A span: its content and style, and as history the call that made it ("text"
\* for a Text event, "code" for a Code event, "soft" for a SoftBreak, "raw" for
\* Span::raw) and the inline tags that were open then.
SpanOf(content, style, by, open) ==
    [content |-> content, style |-> style, by |-> by, open |-> open]

\* flush_line
flush_line(m) ==
    IF m.current_line # <<>>
    THEN [m EXCEPT !.lines = Append(@, m.current_line), !.current_line = <<>>]
    ELSE m

\* the tags of the stack of open inline tags
OpenTags(m) == {m.open[i] : i \in 1..Len(m.open)}

\* current_line.push(Span::raw(" ".repeat(indent)))
PushIndent(m) ==
    [m EXCEPT !.current_line =
        Append(@, SpanOf(Spaces(2 * m.list_level), StyleDefault, "raw", OpenTags(m)))]

\* add_text_to_line up to its loop
AddTextEnter(m, text, style, by) ==
    LET m1 == IF m.current_line = <<>> /\ m.list_level > 0 THEN PushIndent(m) ELSE m
    IN  [m1 EXCEPT !.text = text, !.style = style, !.by = by,
                   !.pc = IF text = <<>> THEN "events" ELSE "text"]

\* one pass of add_text_to_line's `while !remaining_text.is_empty()`
AddTextPass(m) ==
    LET indent == 2 * m.list_level
        available_width == SatSub(m.width, indent)
        space_left == SatSub(available_width, LineWidth(m.current_line))
        reindent(x) == IF x.list_level > 0 THEN PushIndent(x) ELSE x
    IN  IF space_left = 0
        THEN reindent(flush_line(m))
        ELSE LET sp == split_at_width(m.text, space_left)
                 sep == IF m.current_line # <<>>
                           /\ ~(Last(m.current_line).content # <<>>
                                /\ Last(Last(m.current_line).content) = " ")
                        THEN <<SpanOf(<<" ">>, StyleDefault, "raw", OpenTags(m))>>
                        ELSE <<>>
                 m1 == IF sp.chunk # <<>>
                       THEN [m EXCEPT !.current_line =
                                @ \o sep \o <<SpanOf(trim_end(sp.chunk), m.style, m.by,
                                                     OpenTags(m))>>]
                       ELSE m
                 m2 == [m1 EXCEPT !.text = sp.rest]
             IN  IF sp.rest # <<>>
                 THEN reindent(flush_line(m2))
                 ELSE [m2 EXCEPT !.pc = "events"]

\* the events pulldown_cmark's Parser yields
Ev(e) == [e |-> e, text |-> <<>>]
TextEv(t) == [e |-> "Text", text |-> t]
CodeEv(t) == [e |-> "Code", text |-> t]

\* the body of `for event in parser`, for one event
OnEvent(m, ev) ==
    CASE ev.e = "Text" -> AddTextEnter(m, ev.text, m.current_style, "text")
      [] ev.e = "SoftBreak" -> AddTextEnter(m, <<" ">>, m.current_style, "soft")
      [] ev.e = "HardBreak" -> flush_line(m)
      [] ev.e = "StartList" -> [flush_line(m) EXCEPT !.list_level = @ + 1]
      [] ev.e = "EndList" -> [flush_line(m) EXCEPT !.list_level = SatSub(@, 1)]
      [] ev.e = "StartItem" ->
            LET f == flush_line(m)
                bullet == IF f.list_level % 2 = 1 THEN <<"bullet", " ">> ELSE <<"ring", " ">>
            IN  [f EXCEPT !.current_line =
                    Append(@, SpanOf(Spaces(2 * (f.list_level - 1)) \o bullet,
                                     StyleDefault, "raw", OpenTags(f)))]
      [] ev.e = "EndItem" -> flush_line(m)
      [] ev.e = "StartEmphasis" ->
            [m EXCEPT !.current_style = add_modifier(@, "ITALIC"),
                      !.open = Append(@, "Emphasis")]
      [] ev.e = "EndEmphasis" ->
            [m EXCEPT !.current_style = remove_modifier(@, "ITALIC"),
                      !.open = Front(@)]
      [] ev.e = "StartStrong" ->
            [m EXCEPT !.current_style = add_modifier(@, "BOLD"),
                      !.open = Append(@, "Strong")]
      [] ev.e = "EndStrong" ->
            [m EXCEPT !.current_style = remove_modifier(@, "BOLD"),
                      !.open = Front(@)]
      [] ev.e = "Code" ->
            AddTextEnter(m, <<"tick">> \o ev.text \o <<"tick">>, CodeStyle, "code")
      [] ev.e = "StartParagraph" ->
            IF m.lines # <<>> THEN [m EXCEPT !.lines = Append(@, <<>>)] ELSE m
      [] ev.e = "EndParagraph" -> [flush_line(m) EXCEPT !.lines = Append(@, <<>>)]
      [] OTHER -> m

\* while lines.last().map_or(false, |line| line.spans.is_empty()) { lines.pop(); }
RECURSIVE PopEmptyLines(_)
PopEmptyLines(lines) ==
    IF lines # <<>> /\ Last(lines) = <<>> THEN PopEmptyLines(Front(lines)) ELSE lines

\* render_markdown's locals when it is called with the events and the width
MarkdownStart(events, width) ==
    [pc |-> "events", events |-> events, width |-> width, lines |-> <<>>,
     current_line |-> <<>>, list_level |-> 0, current_style |-> StyleDefault,
     text |-> <<>>, style |-> StyleDefault, by |-> "raw", open |-> <<>>]

\* render_markdown is not running
NoMarkdown == [MarkdownStart(<<>>, 0) EXCEPT !.pc = "idle"]

\* ------------------------------------------------------------- variables
VARIABLES
    ui,             \* Interface.ui_state
    mpc,            \* where main is: "run", "spawn", "response", "ret", "exited"
    message,        \* the message Interface::run returned
    full_response,  \* process_response's accumulator
    turn,           \* number of requests issued so far
    stream,         \* config.stream
    ppc,            \* per request: where its process_message task is
    buffer,         \* per request: the task's byte buffer
    chan,           \* per request: the items queued in its channel
    rxAlive,        \* per request: its Receiver is not yet dropped
    body,           \* per request: the bytes of the response body still to come
    emitted,        \* history: the items the current request's task enqueued
    applied,        \* history: the items update_response applied in this turn
    outcome,        \* history: how process_response ended in this turn
    skips,          \* history: for each line of the current request that was
                    \* not JSON, the number of items enqueued before it
    pending,        \* the key press waiting in the terminal's event queue
    typed,          \* history: the character and Backspace keys handled in
                    \* Editing mode since the input buffer was last drained
    spinner,        \* ui_state.spinner
    shown,          \* history: the frames next_frame has returned
    lay,            \* the widths Renderer::render computed for a message
    md              \* MarkdownRenderer::render_markdown's locals

vars == <<ui, mpc, message, full_response, turn, stream, ppc, buffer, chan,
          rxAlive, body, emitted, applied, outcome, skips, pending, typed,
          spinner, shown, lay, md>>

mainVars == <<ui, mpc, message, full_response, turn, rxAlive, applied, outcome>>
taskVars == <<ppc, buffer, chan, body, emitted, skips>>
termVars == <<pending, typed>>
viewVars == <<spinner, shown, lay, md>>

\* Nothing has been drawn yet.
ViewIdle ==
    /\ spinner = SpinnerNew
    /\ shown = <<>>
    /\ lay = NoLayout
    /\ md = NoMarkdown

Init ==
    /\ ui = StateNew
    /\ mpc = "run"
    /\ message = <<>>
    /\ full_response = <<>>
    /\ turn = 0
    /\ stream \in BOOLEAN
    /\ ppc = [k \in Turns |-> "unborn"]
    /\ buffer = [k \in Turns |-> <<>>]
    /\ chan = [k \in Turns |-> <<>>]
    /\ rxAlive = [k \in Turns |-> FALSE]
    /\ body = [k \in Turns |-> <<>>]
    /\ emitted = <<>>
    /\ applied = <<>>
    /\ outcome = "none"
    /\ skips = <<>>
    /\ pending = NoKey
    /\ typed = <<>>
    /\ ViewIdle

\* The task has returned, so its Sender is dropped.
TaskEnded(k) == ppc[k] \in {"ok", "err"}

\* --------------------------------- src/main.rs: process_message (the task)
\* A task that enqueues on the queue of whichever turn is current.
TaskSend_current_queue(k, item, next) ==
    IF rxAlive[turn]
    THEN /\ Len(chan[turn]) < ChannelCapacity
         /\ chan' = [chan EXCEPT ![turn] = Enqueue(@, item)]
         /\ emitted' = Append(emitted, item)
         /\ ppc' = [ppc EXCEPT ![k] = next]
    ELSE /\ ppc' = [ppc EXCEPT ![k] = "err"]
         /\ UNCHANGED <<chan, emitted>>

\* A task whose enqueue goes on waiting when the Receiver is dropped.
TaskSend_waits_when_closed(k, item, next) ==
    /\ rxAlive[k]
    /\ Len(chan[k]) < ChannelCapacity
    /\ chan' = [chan EXCEPT ![k] = Enqueue(@, item)]
    /\ emitted' = IF k = turn THEN Append(emitted, item) ELSE emitted
    /\ ppc' = [ppc EXCEPT ![k] = next]

\* tx.send(item).await.map_err(..)?, then go to `next`: the send fails when the
\* Receiver is dropped (the task returns Err) and waits while the queue is full.
TaskSend(k, item, next) ==
    IF rxAlive[k]
    THEN /\ Len(chan[k]) < ChannelCapacity
         /\ chan' = [chan EXCEPT ![k] = Enqueue(@, item)]
         /\ emitted' = IF k = turn THEN Append(emitted, item) ELSE emitted
         /\ ppc' = [ppc EXCEPT ![k] = next]
    ELSE /\ ppc' = [ppc EXCEPT ![k] = "err"]
         /\ UNCHANGED <<chan, emitted>>

\* client.post(..).send().await is Err: one Network error item, return Ok.
RequestFails(k) ==
    /\ ppc[k] = "request"
    /\ TaskSend(k, ErrItem(k, "Network"), "ok")
    /\ UNCHANGED <<buffer, body, stream, skips>>
    /\ UNCHANGED mainVars
    /\ UNCHANGED termVars
    /\ UNCHANGED viewVars

\* The streamed bodies the whole program is explored with:
Bodies ==
    { <<>>,                           \* no byte at all
      <<"a", NL, "b", NL>>,           \* two deltas, then the stream ends
      <<"a", NL, "b", "D", NL>>,      \* two deltas, the second on a done line
      <<"D", NL, "a", NL>>,           \* a done line, and a line after it
      <<NL, "a", NL>>,                \* a line that is not JSON, then a delta
      <<"a", NL, "b">> }              \* a delta, then bytes without a newline

\* client.post(..).send().await is Ok(resp); the status and config.stream pick the path.
RequestResponds(k) ==
    /\ ppc[k] = "request"
    /\ \E success \in BOOLEAN :
          IF success /\ stream
          THEN /\ ppc' = [ppc EXCEPT ![k] = "stream"]
               /\ \E b \in Bodies : body' = [body EXCEPT ![k] = b]
          ELSE /\ ppc' = [ppc EXCEPT ![k] = IF success THEN "json_body" ELSE "err_body"]
               /\ UNCHANGED body
    /\ UNCHANGED <<buffer, chan, emitted, stream, skips>>
    /\ UNCHANGED mainVars
    /\ UNCHANGED termVars
    /\ UNCHANGED viewVars

ErrBodies == {"unreadable", "error_string", "no_error_string", "not_json"}

\* The non-success branch: response.text().await?, then one error item.
ErrorBody(k) ==
    /\ ppc[k] = "err_body"
    /\ \E text \in ErrBodies :
          CASE text = "unreadable" ->
                  /\ ppc' = [ppc EXCEPT ![k] = "err"]
                  /\ UNCHANGED <<chan, emitted>>
            [] text = "no_error_string" -> TaskSend(k, ErrItem(k, "Unexpected"), "ok")
            [] OTHER -> TaskSend(k, ErrItem(k, "ApiError"), "ok")
    /\ UNCHANGED <<buffer, body, stream, skips>>
    /\ UNCHANGED mainVars
    /\ UNCHANGED termVars
    /\ UNCHANGED viewVars

\* message.content of a non-streaming body: absent, empty, or a text
JsonBodies == {<<>>, << <<>> >>, << <<"a">> >>}

\* The non-streaming branch: response.json().await?, then at most one delta.
JsonBody(k) ==
    /\ ppc[k] = "json_body"
    /\ \/ /\ ppc' = [ppc EXCEPT ![k] = "err"]
          /\ UNCHANGED <<chan, emitted>>
       \/ \E content \in JsonBodies :
             IF content # <<>>
             THEN TaskSend(k, OkItem(k, content[1]), "ok")
             ELSE /\ ppc' = [ppc EXCEPT ![k] = "ok"]
                  /\ UNCHANGED <<chan, emitted>>
    /\ UNCHANGED <<buffer, body, stream, skips>>
    /\ UNCHANGED mainVars
    /\ UNCHANGED termVars
    /\ UNCHANGED viewVars

\* A chunk that replaces what is left in the buffer.
ChunkArrives_replaces(k) ==
    /\ ppc[k] = "stream"
    /\ \E n \in 1..Len(body[k]) :
          /\ buffer' = [buffer EXCEPT ![k] = SubSeq(body[k], 1, n)]
          /\ body' = [body EXCEPT ![k] = SubSeq(@, n + 1, Len(@))]
    /\ ppc' = [ppc EXCEPT ![k] = "lines"]
    /\ UNCHANGED <<chan, emitted, stream, skips>>
    /\ UNCHANGED mainVars
    /\ UNCHANGED termVars
    /\ UNCHANGED viewVars

\* stream.next().await is Some(Ok(chunk)), the chunk being any non-empty prefix
\* of what is still to come: buffer.extend_from_slice(&chunk)
ChunkArrives(k) ==
    /\ ppc[k] = "stream"
    /\ \E n \in 1..Len(body[k]) :
          /\ buffer' = [buffer EXCEPT ![k] = @ \o SubSeq(body[k], 1, n)]
          /\ body' = [body EXCEPT ![k] = SubSeq(@, n + 1, Len(@))]
    /\ ppc' = [ppc EXCEPT ![k] = "lines"]
    /\ UNCHANGED <<chan, emitted, stream, skips>>
    /\ UNCHANGED mainVars
    /\ UNCHANGED termVars
    /\ UNCHANGED viewVars

\* stream.next().await is Some(Err(e)): `chunk?` returns the error.
ChunkFails(k) ==
    /\ ppc[k] = "stream"
    /\ ppc' = [ppc EXCEPT ![k] = "err"]
    /\ UNCHANGED <<buffer, chan, body, emitted, stream, skips>>
    /\ UNCHANGED mainVars
    /\ UNCHANGED termVars
    /\ UNCHANGED viewVars

\* A task that, when its stream ends, puts the interface back to Normal itself.
StreamEnds_writes_state(k) ==
    /\ ppc[k] = "stream"
    /\ body[k] = <<>>
    /\ ppc' = [ppc EXCEPT ![k] = "ok"]
    /\ ui' = [ui EXCEPT !.input_mode = "Normal"]
    /\ UNCHANGED <<buffer, chan, body, emitted, stream, skips>>
    /\ UNCHANGED <<mpc, message, full_response, turn, rxAlive, applied, outcome>>
    /\ UNCHANGED termVars
    /\ UNCHANGED viewVars

\* A task that decodes what is left in the buffer when the stream ends.
StreamEnds_decodes_rest(k) ==
    /\ ppc[k] = "stream"
    /\ body[k] = <<>>
    /\ IF JsonOk(buffer[k]) /\ JsonContent(buffer[k]) # <<>>
       THEN TaskSend(k, OkItem(k, JsonContent(buffer[k])[1]), "ok")
       ELSE /\ ppc' = [ppc EXCEPT ![k] = "ok"]
            /\ UNCHANGED <<chan, emitted>>
    /\ UNCHANGED <<buffer, body, stream, skips>>
    /\ UNCHANGED mainVars
    /\ UNCHANGED termVars
    /\ UNCHANGED viewVars

\* stream.next().await is None: the loop ends, Ok(()).
StreamEnds(k) ==
    /\ ppc[k] = "stream"
    /\ body[k] = <<>>
    /\ ppc' = [ppc EXCEPT ![k] = "ok"]
    /\ UNCHANGED <<buffer, chan, body, emitted, stream, skips>>
    /\ UNCHANGED mainVars
    /\ UNCHANGED termVars
    /\ UNCHANGED viewVars

AfterBadLine_returns == "err"

\* where the task goes on after a line that is not JSON
AfterBadLine == "lines"

\* One pass of the inner `while let Some(pos)` loop.
LineStep(k) ==
    /\ ppc[k] = "lines"
    /\ LET pos == NewlinePos(buffer[k], 1)
           line == SubSeq(buffer[k], 1, pos - 1)
           rest == SubSeq(buffer[k], pos + 1, Len(buffer[k]))
       IN  IF pos = 0
           THEN /\ ppc' = [ppc EXCEPT ![k] = "stream"]
                /\ UNCHANGED <<buffer, chan, emitted, skips>>
           ELSE /\ buffer' = [buffer EXCEPT ![k] = rest]
                /\ IF JsonOk(line)
                   THEN LET next == IF JsonDone(line) THEN "ok" ELSE "lines"
                        IN  /\ IF JsonContent(line) # <<>>
                               THEN TaskSend(k, OkItem(k, JsonContent(line)[1]), next)
                               ELSE /\ ppc' = [ppc EXCEPT ![k] = next]
                                    /\ UNCHANGED <<chan, emitted>>
                            /\ UNCHANGED skips
                   ELSE /\ ppc' = [ppc EXCEPT ![k] = AfterBadLine]
                        /\ skips' = IF k = turn THEN Append(skips, Len(emitted)) ELSE skips
                        /\ UNCHANGED <<chan, emitted>>
    /\ UNCHANGED <<body, stream>>
    /\ UNCHANGED mainVars
    /\ UNCHANGED termVars
    /\ UNCHANGED viewVars

\* A task runs until main returns: the runtime of #[tokio::main] is then
\* dropped and its tasks with it.
Task(k) ==
  /\ mpc # "exited"
  /\
    \/ RequestFails(k)
    \/ RequestResponds(k)
    \/ ErrorBody(k)
    \/ JsonBody(k)
    \/ ChunkArrives(k)
    \/ ChunkFails(k)
    \/ StreamEnds(k)
    \/ LineStep(k)

\* ------------------------------------- src/ui/chat.rs: Interface::run
\* event::poll() may time out with no key
OrNone(K) == K \cup {NoKey}

\* the keys pressed while the whole program, its ingestion tasks included, is
\* explored: those that change the mode, quit, type a character or cancel
NormalKeys == {"e", "q"}
EditingKeys == {"a", "Enter", "Esc"}
CancelKeys == {"Esc"}

\* `if self.ui_state.quit { return Ok(None) }`: main's `while let` ends.
RunQuit ==
    /\ mpc = "run"
    /\ ui.quit
    /\ ui' = draw(ui)
    /\ mpc' = "exited"
    /\ UNCHANGED <<message, full_response, turn, rxAlive, applied, outcome, stream>>
    /\ UNCHANGED taskVars
    /\ UNCHANGED termVars
    /\ UNCHANGED viewVars

\* One pass of the loop while input_mode is Waiting: poll, Esc pops.
RunWaiting(K) ==
    /\ mpc = "run"
    /\ ~ui.quit
    /\ ui.input_mode = "Waiting"
    /\ \E key \in OrNone(K) : ui' = run_waiting(draw(ui), key)
    /\ UNCHANGED <<mpc, message, full_response, turn, rxAlive, applied, outcome, stream>>
    /\ UNCHANGED taskVars
    /\ UNCHANGED termVars
    /\ UNCHANGED viewVars

\* A pass in Normal mode that does not look at quit.
RunNormal_ignores_quit(K) ==
    /\ mpc = "run"
    /\ ui.input_mode = "Normal"
    /\ \E key \in K : ui' = handle_normal_mode(draw(ui), key)
    /\ UNCHANGED <<mpc, message, full_response, turn, rxAlive, applied, outcome, stream>>
    /\ UNCHANGED taskVars
    /\ UNCHANGED termVars
    /\ UNCHANGED viewVars

\* One pass of the loop in Normal mode: event::read(), handle_normal_mode.
RunNormal(K) ==
    /\ mpc = "run"
    /\ ~ui.quit
    /\ ui.input_mode = "Normal"
    /\ \E key \in K : ui' = handle_normal_mode(draw(ui), key)
    /\ UNCHANGED <<mpc, message, full_response, turn, rxAlive, applied, outcome, stream>>
    /\ UNCHANGED taskVars
    /\ UNCHANGED termVars
    /\ UNCHANGED viewVars

\* the keys that edit the input buffer
BufferKeys == Chars \cup {"Backspace"}

\* One pass of the loop in Editing mode: event::read(), handle_editing_mode;
\* Some(message) is returned to main.  At most n keys that edit the buffer are
\* explored for one message.
EditingPass(K, n) ==
    /\ mpc = "run"
    /\ ~ui.quit
    /\ ui.input_mode = "Editing"
    /\ \E key \in K :
          LET r == handle_editing_mode(draw(ui), key)
          IN  /\ key \in BufferKeys => Len(typed) < n
              /\ typed' = IF key \in BufferKeys THEN Append(typed, key) ELSE typed
              /\ ui' = r.state
              /\ IF r.ret # <<>>
                 THEN mpc' = "spawn" /\ message' = r.ret[1]
                 ELSE UNCHANGED <<mpc, message>>
    /\ UNCHANGED <<full_response, turn, rxAlive, applied, outcome, stream, pending>>
    /\ UNCHANGED viewVars
    /\ UNCHANGED taskVars

RunEditing(K) == EditingPass(K, MaxInput)

\* ------------------------------------------------- src/main.rs: main
\* mpsc::channel(100), tokio::spawn(process_message), start_new_response, and
\* the entry of process_response.
SpawnTurn(n) ==
    /\ mpc = "spawn"
    /\ turn < n
    /\ turn' = turn + 1
    /\ chan' = [chan EXCEPT ![turn + 1] = <<>>]
    /\ rxAlive' = [rxAlive EXCEPT ![turn + 1] = TRUE]
    /\ ppc' = [ppc EXCEPT ![turn + 1] = "request"]
    /\ ui' = start_new_response(ui)
    /\ full_response' = <<>>
    /\ outcome' = "running"
    /\ skips' = <<>>
    /\ emitted' = <<>>
    /\ applied' = <<>>
    /\ mpc' = "response"
    /\ typed' = <<>>
    /\ UNCHANGED <<message, buffer, body, stream, pending>>
    /\ UNCHANGED viewVars

\* the turns explored are those up to MaxTurns
StartTurn == SpawnTurn(MaxTurns)

\* process_response has returned: should_quit, then rx goes out of scope.
EndTurn ==
    /\ mpc = "ret"
    /\ rxAlive' = [rxAlive EXCEPT ![turn] = FALSE]
    /\ chan' = [chan EXCEPT ![turn] = <<>>]
    /\ mpc' = IF ui.quit THEN "exited" ELSE "run"
    /\ UNCHANGED <<ui, message, full_response, turn, applied, outcome, stream>>
    /\ UNCHANGED <<ppc, buffer, body, emitted, skips>>
    /\ UNCHANGED termVars
    /\ UNCHANGED viewVars

\* ------------------------------------- src/main.rs: process_response
CancelPc_continues == "response"

\* where a CancelRequest leaves process_response: `return Ok(())`
CancelPc == "ret"

Ended(o, how) == IF o = "running" THEN how ELSE o

\* `if let Some(action) = chat_ui.update()?` and the CancelRequest branch
UpdateAndCancel(s, key) ==
    LET u == update(s, key)
    IN  IF u.cancel
        THEN /\ ui' = add_response(u.state, RequestCancelled)
             /\ mpc' = CancelPc
             /\ outcome' = Ended(outcome, "cancelled")
        ELSE /\ ui' = u.state
             /\ UNCHANGED <<mpc, outcome>>

\* rx.recv() is Some(Ok(content)), and the poll of update() finds `key`
RecvDeltaKey(key) ==
    /\ mpc = "response"
    /\ chan[turn] # <<>>
    /\ Head(chan[turn]).tag = "Ok"
    /\ LET content == Head(chan[turn]).val
       IN  /\ chan' = [chan EXCEPT ![turn] = Tail(@)]
           /\ full_response' = full_response \o content
           /\ applied' = IF ui.input_mode = "Waiting"
                         THEN Append(applied, Head(chan[turn]))
                         ELSE applied
           /\ UpdateAndCancel(update_response(ui, content), key)
    /\ UNCHANGED <<message, turn, rxAlive, stream, ppc, buffer, body, emitted, skips>>
    /\ UNCHANGED typed
    /\ UNCHANGED viewVars

\* rx.recv() is Some(Ok(content))
RecvDelta(K) == \E key \in OrNone(K) : RecvDeltaKey(key) /\ UNCHANGED pending

\* rx.recv() is Some(Err(err))
RecvError ==
    /\ mpc = "response"
    /\ chan[turn] # <<>>
    /\ Head(chan[turn]).tag = "Err"
    /\ chan' = [chan EXCEPT ![turn] = Tail(@)]
    /\ ui' = add_response(ui, ErrorText(Head(chan[turn]).val[1]))
    /\ outcome' = Ended(outcome, "error")
    /\ mpc' = "ret"
    /\ UNCHANGED <<message, full_response, turn, rxAlive, applied, stream,
                   ppc, buffer, body, emitted, skips>>
    /\ UNCHANGED termVars
    /\ UNCHANGED viewVars

\* rx.recv() is None: the queue is empty and the task has dropped its Sender
RecvClosed ==
    /\ mpc = "response"
    /\ chan[turn] = <<>>
    /\ TaskEnded(turn)
    /\ ui' = IF full_response # <<>> THEN add_response(ui, full_response) ELSE ui
    /\ outcome' = Ended(outcome, "completed")
    /\ mpc' = "ret"
    /\ UNCHANGED <<message, full_response, turn, rxAlive, applied, stream>>
    /\ UNCHANGED taskVars
    /\ UNCHANGED termVars
    /\ UNCHANGED viewVars

\* sleep(100ms) elapsed first, and the poll of update() finds `key`
TickKey(key) ==
    /\ mpc = "response"
    /\ UpdateAndCancel(ui, key)
    /\ UNCHANGED <<message, full_response, turn, rxAlive, applied, stream>>
    /\ UNCHANGED taskVars
    /\ UNCHANGED typed
    /\ UNCHANGED viewVars

\* sleep(100ms) elapsed first
Tick(K) == \E key \in OrNone(K) : TickKey(key) /\ UNCHANGED pending

Next ==
    \/ RunQuit
    \/ RunWaiting(CancelKeys)
    \/ RunNormal(NormalKeys)
    \/ RunEditing(EditingKeys)
    \/ StartTurn
    \/ EndTurn
    \/ RecvDelta(CancelKeys)
    \/ RecvError
    \/ RecvClosed
    \/ Tick(CancelKeys)
    \/ \E k \in Turns : Task(k)

Spec == Init /\ [][Next]_vars

\* ------------------------------------------ the streaming decoder, every body
\* ui_state when the first message, an empty one, has been submitted
Submitted == handle_editing_mode(draw(handle_normal_mode(draw(StateNew), "e")), "Enter").state

\* every byte sequence of at most MaxBytes bytes
AllBodies == UNION {[1..n -> Bytes] : n \in 0..MaxBytes}

\* The first request has been answered with a success status and config.stream
\* is true: the task is at `while let Some(chunk) = stream.next().await`, main
\* is in process_response, and the body is any byte sequence.
InitDecode ==
    /\ ui = start_new_response(Submitted)
    /\ mpc = "response"
    /\ message = <<>>
    /\ full_response = <<>>
    /\ turn = 1
    /\ stream = TRUE
    /\ ppc = [k \in Turns |-> IF k = 1 THEN "stream" ELSE "unborn"]
    /\ buffer = [k \in Turns |-> <<>>]
    /\ chan = [k \in Turns |-> <<>>]
    /\ rxAlive = [k \in Turns |-> k = 1]
    /\ \E b \in AllBodies : body = [k \in Turns |-> IF k = 1 THEN b ELSE <<>>]
    /\ emitted = <<>>
    /\ applied = <<>>
    /\ outcome = "running"
    /\ skips = <<>>
    /\ pending = NoKey
    /\ typed = <<>>
    /\ ViewIdle

\* The rest of that turn: the task decodes, process_response consumes and may be
\* cancelled, and main drops the Receiver.
NextDecode ==
    \/ ChunkArrives(1)
    \/ ChunkFails(1)
    \/ StreamEnds(1)
    \/ LineStep(1)
    \/ RecvDelta(CancelKeys)
    \/ RecvClosed
    \/ Tick(CancelKeys)
    \/ EndTurn

SpecDecode == InitDecode /\ [][NextDecode]_vars

\* ------------------------------------------------------------ properties
Vals(items) == [i \in 1..Len(items) |-> items[i].val]
AllOk(items) == \A i \in 1..Len(items) : items[i].tag = "Ok"
Msgs == ui.messages
GeneratingMsg == <<"system", Generating>>

\* C1: when process_response returns after the channel closed, with no
\* cancellation, no error item and a non-empty total, the last message is the
\* assistant message holding the task's deltas concatenated in the order the
\* task enqueued them.
C1_DeltasAppliedInOrder ==
    (mpc = "ret" /\ outcome = "completed" /\ AllOk(emitted)
        /\ Concat(Vals(emitted)) # <<>>)
    => /\ Msgs # <<>>
       /\ Last(Msgs) = <<"assistant", Concat(Vals(emitted))>>

C1_Witness ==
    /\ mpc = "ret" /\ outcome = "completed"
    /\ Vals(emitted) = << <<"a">>, <<"b">> >>
    /\ Last(Msgs) = <<"assistant", <<"a", "b">>>>

\* C2: while process_response runs in Waiting mode, the last message is the
\* assistant message whose content is current_response, and current_response is
\* the concatenation of the deltas update_response applied in this turn.
C2_TailIsAccumulator ==
    (mpc = "response" /\ ui.input_mode = "Waiting")
    => /\ Msgs # <<>>
       /\ Last(Msgs) = <<"assistant", ui.current_response>>
       /\ ui.current_response = Concat(Vals(applied))

C2_Witness ==
    /\ mpc = "response" /\ ui.input_mode = "Waiting"
    /\ Len(applied) = 2
    /\ ui.current_response = <<"a", "b">>
    /\ Last(Msgs) = <<"assistant", <<"a", "b">>>>

\* C3: once a turn is cancelled, no further item of the turn is applied, and no
\* step other than the next key handling of Interface::run changes messages:
\* what the turn's task enqueues afterwards, and what it had queued, is dropped.
C3_NoDeltaAfterCancel ==
    [][outcome = "cancelled"
        => /\ turn' = turn => applied' = applied
           /\ mpc \notin {"run", "spawn"} => ui'.messages = ui.messages]_vars

C3_Witness ==
    /\ outcome = "cancelled"
    /\ mpc = "run"
    /\ Len(emitted) > Len(applied)
    /\ Last(Msgs) = <<"assistant", RequestCancelled>>

\* C4 as claimed: whenever process_response has returned, the mode is Normal.
C4_NormalAtReturn == mpc = "ret" => ui.input_mode = "Normal"

\* C5 as claimed: in every state, Waiting implies that the last message is the
\* assistant message being streamed into.
C5_WaitingTailIsAssistant ==
    ui.input_mode = "Waiting" => (Msgs # <<>> /\ Last(Msgs)[1] = "assistant")

\* C5 amended: once start_new_response has run for the submission, Waiting
\* implies that the last message is the assistant message being streamed into;
\* between Enter and start_new_response the last message is the placeholder
\* ("system", "Generating...").
C5_WaitingTailAfterStart ==
    ui.input_mode = "Waiting"
    => IF mpc = "spawn"
       THEN Msgs # <<>> /\ Last(Msgs) = GeneratingMsg
       ELSE Msgs # <<>> /\ Last(Msgs) = <<"assistant", ui.current_response>>

C5_Witness ==
    /\ ui.input_mode = "Waiting"
    /\ mpc = "response"
    /\ Last(Msgs) = <<"assistant", <<"a">>>>

C7_NoGeneratingAfterTurn ==
    mpc = "ret" => \A i \in 1..Len(Msgs) : Msgs[i] # GeneratingMsg

\* C8 as claimed: every step leaves every message but the last unchanged and in
\* place.
C8_OnlyTailChanges ==
    [][\A i \in 1..(Len(ui.messages) - 1) :
          /\ i <= Len(ui'.messages)
          /\ ui'.messages[i] = ui.messages[i]]_vars

\* C8 amended: every step leaves every message but the last unchanged and in
\* place, except add_response called in Waiting mode, which removes the last two
\* messages, the assistant message streamed into and the ("system",
\* "Generating...") entry under it, and appends one assistant message.
C8_TailOrPlaceholderChanges ==
    [][LET old == ui.messages
           new == ui'.messages
           n == Len(old)
       IN  IF \A i \in 1..(n - 1) : i <= Len(new) /\ new[i] = old[i]
           THEN TRUE
           ELSE /\ ui.input_mode = "Waiting"
                /\ mpc = "response" /\ mpc' = "ret"
                /\ n >= 2
                /\ old[n] = <<"assistant", ui.current_response>>
                /\ old[n - 1] = GeneratingMsg
                /\ Len(new) = n - 1
                /\ SubSeq(new, 1, n - 2) = SubSeq(old, 1, n - 2)
                /\ new[n - 1][1] = "assistant"]_vars

C8_Witness ==
    /\ mpc = "ret"
    /\ outcome = "completed"
    /\ Msgs = << <<"user", <<"a">>>>, <<"assistant", <<"a", "b">>>> >>

\* A line of the streaming body that is JSON with done == true, and one that is
\* not JSON, written out on the symbols of the body.
IsDoneLine(line) ==
    /\ line # <<>>
    /\ line[Len(line)] = "D"
    /\ \A i \in 1..(Len(line) - 1) : line[i] \in ContentBytes

IsBadLine(line) ==
    \/ line = <<>>
    \/ \E i \in 1..(Len(line) - 1) : line[i] = "D"

FirstLine(buf) == SubSeq(buf, 1, NewlinePos(buf, 1) - 1)
LineContent(line) == SelectSeq(line, LAMBDA b : b \in ContentBytes)

\* C9: the pass of the line loop that takes a done line ends the task, having
\* enqueued the line's own content when it has one (the enqueue fails only when
\* the Receiver is gone); and a task that has ended enqueues nothing more,
\* whatever is left in its buffer.
C9_DoneEndsIngestion ==
    [][\A k \in Turns :
          /\ (/\ ppc[k] = "lines"
              /\ NewlinePos(buffer[k], 1) > 0
              /\ IsDoneLine(FirstLine(buffer[k]))
              /\ buffer'[k] # buffer[k])
             => LET c == LineContent(FirstLine(buffer[k]))
                IN  /\ ppc'[k] = IF c # <<>> /\ ~rxAlive[k] THEN "err" ELSE "ok"
                    /\ chan'[k] = IF c # <<>> /\ rxAlive[k]
                                  THEN Append(chan[k], OkItem(k, c))
                                  ELSE chan[k]
          /\ TaskEnded(k)
             => /\ ppc'[k] = ppc[k]
                /\ buffer'[k] = buffer[k]
                /\ Len(chan'[k]) <= Len(chan[k])
                /\ (k = turn /\ turn' = turn) => emitted' = emitted]_vars

C9_Witness ==
    \E k \in Turns :
       /\ ppc[k] = "ok"
       /\ buffer[k] = <<"a", NL>>
       /\ k = turn
       /\ emitted = <<>>

\* C10: the pass of the line loop that takes a line that is not JSON enqueues
\* nothing and leaves the task in the line loop, where the lines that follow are
\* decoded as usual.
C10_BadLineSkipped ==
    [][\A k \in Turns :
          (/\ ppc[k] = "lines"
           /\ NewlinePos(buffer[k], 1) > 0
           /\ IsBadLine(FirstLine(buffer[k]))
           /\ buffer'[k] # buffer[k])
          => /\ ppc'[k] = "lines"
             /\ chan'[k] = chan[k]
             /\ emitted' = emitted]_vars

C10_Witness ==
    /\ skips = <<0>>
    /\ Vals(emitted) = << <<"a">> >>
    /\ ppc[turn] = "ok"

\* the error items process_message makes
ErrKinds == {"Network", "ApiError", "Unexpected"}

\* C11: a task that leaves the non-success branch while its Receiver is alive
\* has enqueued exactly one item in that step, an error item (ApiError with the
\* body's error text, or Unexpected "Unknown API error"), and has returned Ok.
C11_BadStatusEnqueuesOneError ==
    [][\A k \in Turns :
          (ppc[k] = "err_body" /\ rxAlive[k] /\ ppc'[k] # "err_body")
          => /\ ppc'[k] = "ok"
             /\ \E kind \in {"ApiError", "Unexpected"} :
                   chan'[k] = Append(chan[k], ErrItem(k, kind))]_vars

\* C12: a task that meets a transport failure while its Receiver is alive (the
\* request is not sent, or the read of a body or of a chunk fails) enqueues one
\* error item in that step.
C12_TransportFailureEnqueuesError ==
    [][\A k \in Turns :
          (/\ rxAlive[k]
           /\ ~TaskEnded(k)
           /\ \/ ppc'[k] = "err"
              \/ ppc[k] = "request" /\ ppc'[k] = "ok")
          => \E kind \in ErrKinds : chan'[k] = Append(chan[k], ErrItem(k, kind))]_vars

\* C13: when process_response returns after an error item, the mode is Normal
\* and the error text is the one message after the user's (both placeholders
\* are gone); main then goes back to Interface::run with the state as it is,
\* and there the mode is never Waiting, so that the keys are handled.
C13_ErrorTurnLeavesLoopUsable ==
    [][/\ (mpc = "ret" /\ outcome = "error")
          => /\ ui.input_mode = "Normal"
             /\ Len(Msgs) >= 2
             /\ \E kind \in ErrKinds : Last(Msgs) = <<"assistant", ErrorText(kind)>>
             /\ Msgs[Len(Msgs) - 1] = <<"user", message>>
             /\ mpc' # mpc => (mpc' = "run" /\ ui' = ui)
       /\ (mpc = "run" /\ outcome = "error" /\ turn' = turn)
          => /\ ui.input_mode # "Waiting"
             /\ mpc' \in {"run", "spawn", "exited"}]_vars

\* the next submission has been returned to main after a turn that ended with
\* an error
C13_Witness ==
    /\ mpc = "spawn"
    /\ outcome = "error"
    /\ Len(Msgs) = 4
    /\ Msgs[2] = <<"assistant", ErrorText("Network")>>
    /\ Msgs[3] = <<"user", message>>
    /\ Msgs[4] = GeneratingMsg

\* C15: the step of process_response that handles Escape in Waiting mode
\* appends one message, ("system", "Request cancelled"), and returns.
C15_CancelAppendsSystemMessage ==
    [][(mpc = "response" /\ outcome = "running" /\ outcome' = "cancelled")
        => /\ mpc' = "ret"
           /\ Len(ui'.messages) = Len(Msgs) + 1
           /\ Last(ui'.messages) = <<"system", RequestCancelled>>]_vars

\* ------------------------------- the response loop with a pending key press
\* main has spawned the task of the first request and enters process_response.
InitEsc ==
    /\ ui = start_new_response(Submitted)
    /\ mpc = "response"
    /\ message = <<>>
    /\ full_response = <<>>
    /\ turn = 1
    /\ stream \in BOOLEAN
    /\ ppc = [k \in Turns |-> IF k = 1 THEN "request" ELSE "unborn"]
    /\ buffer = [k \in Turns |-> <<>>]
    /\ chan = [k \in Turns |-> <<>>]
    /\ rxAlive = [k \in Turns |-> k = 1]
    /\ body = [k \in Turns |-> <<>>]
    /\ emitted = <<>>
    /\ applied = <<>>
    /\ outcome = "running"
    /\ skips = <<>>
    /\ pending = NoKey
    /\ typed = <<>>
    /\ ViewIdle

\* The user presses Escape while process_response runs: the key waits in the
\* terminal's event queue until a poll reads it.
PressEsc ==
    /\ mpc = "response"
    /\ pending = NoKey
    /\ pending' = "Esc"
    /\ UNCHANGED <<typed, stream>>
    /\ UNCHANGED viewVars
    /\ UNCHANGED mainVars
    /\ UNCHANGED taskVars

\* The sleep branch, whose update() reads the waiting key press if there is one.
TickPending == TickKey(pending) /\ pending' = NoKey

\* The Some(Ok(content)) branch, whose update() reads the waiting key press.
RecvDeltaPending == RecvDeltaKey(pending) /\ pending' = NoKey

NextEsc ==
    \/ PressEsc
    \/ TickPending
    \/ RecvDeltaPending
    \/ RecvError
    \/ RecvClosed
    \/ EndTurn
    \/ Task(1)

\* sleep(100ms) completes whenever the loop waits in select!; nothing is
\* assumed of the task, which may stall for ever.
SpecEsc == InitEsc /\ [][NextEsc]_vars /\ WF_vars(TickPending)

\* C14: an Escape pressed while process_response runs is followed by the return
\* of process_response, whatever the task does or fails to do.
C14_EscapeEndsTurn == (mpc = "response" /\ pending = "Esc") ~> (mpc = "ret")

\* the turn was cancelled while the task had not even got a response
C14_Witness ==
    /\ mpc = "ret"
    /\ outcome = "cancelled"
    /\ ppc[1] = "request"
    /\ pending = NoKey

\* ------------------------------------- Interface::run up to the submission
\* Interface::run with every key, until it returns the first message; at most
\* MaxKeys keys that edit the buffer are explored.
NextEdit ==
    \/ RunQuit
    \/ RunNormal(Keys)
    \/ EditingPass(Keys, MaxKeys)

\* The first request, of an empty message, has been answered without streaming
\* by the one delta "a", and main is back in Interface::run.
AfterTurn ==
    /\ ui = add_response(update_response(start_new_response(Submitted), <<"a">>), <<"a">>)
    /\ mpc = "run"
    /\ message = <<>>
    /\ full_response = <<"a">>
    /\ turn = 1
    /\ stream = FALSE
    /\ ppc = [k \in Turns |-> IF k = 1 THEN "ok" ELSE "unborn"]
    /\ buffer = [k \in Turns |-> <<>>]
    /\ chan = [k \in Turns |-> <<>>]
    /\ rxAlive = [k \in Turns |-> FALSE]
    /\ body = [k \in Turns |-> <<>>]
    /\ emitted = <<OkItem(1, <<"a">>)>>
    /\ applied = <<OkItem(1, <<"a">>)>>
    /\ outcome = "completed"
    /\ skips = <<>>
    /\ pending = NoKey
    /\ typed = <<>>
    /\ ViewIdle

\* at startup, or after a first turn
InitEdit == Init \/ AfterTurn

SpecEdit == InitEdit /\ [][NextEdit]_vars

\* The text a sequence of character and Backspace keys leaves, from an empty
\* buffer: the characters in order, each Backspace removing the last one left.
RECURSIVE TypedText(_)
TypedText(ks) ==
    IF ks = <<>> THEN <<>>
    ELSE LET t == TypedText(Front(ks))
         IN  IF Last(ks) = "Backspace"
             THEN (IF t = <<>> THEN <<>> ELSE Front(t))
             ELSE Append(t, Last(ks))

\* C16: the message Enter returns is the text of the character and Backspace
\* keys handled since the buffer was empty, and the mode is then Waiting.
C16_EnterReturnsTypedText ==
    [][(mpc = "run" /\ mpc' = "spawn")
        => /\ message' = TypedText(typed)
           /\ ui'.input_mode = "Waiting"]_vars

C16_Witness ==
    /\ mpc = "spawn"
    /\ typed = <<"a", "Backspace", "e">>
    /\ message = <<"e">>
    /\ ui.input_mode = "Waiting"

\* C17: the pass of Interface::run that handles Enter in Editing mode with the
\* buffer text t empties the buffer, appends ("user", t) and then
\* ("system", "Generating...") to the messages, all others staying as they
\* are, sets horizontal_scroll to 0 and the mode to Waiting, and returns t.
C17_EnterEffect ==
    [][(mpc = "run" /\ mpc' = "spawn")
        => /\ ui'.input = <<>>
           /\ ui'.messages = Msgs \o << <<"user", ui.input>>,
                                        <<"system", <<"Generating...">>>> >>
           /\ ui'.horizontal_scroll = 0
           /\ ui'.input_mode = "Waiting"
           /\ message' = ui.input]_vars

\* a second submission, of a text longer than the input pane is wide, after a
\* first turn that left two messages
C17_Witness ==
    /\ mpc = "spawn"
    /\ turn = 1
    /\ message = <<"a", "e">>
    /\ Len(message) > TermInputWidth
    /\ Msgs = << <<"user", <<>>>>, <<"assistant", <<"a">>>>,
                 <<"user", <<"a", "e">>>>, <<"system", <<"Generating...">>>> >>
    /\ ui.input = <<>>
    /\ ui.horizontal_scroll = 0

\* The response process_response passes to add_response in the step it takes,
\* <<r>>, or <<>> when the step does not call add_response.
AddedResponse ==
    IF mpc # "response" \/ outcome # "running" THEN <<>>
    ELSE CASE outcome' = "cancelled" -> <<RequestCancelled>>
           [] outcome' = "error" -> <<ErrorText(Head(chan[turn]).val[1])>>
           [] outcome' = "completed" /\ full_response # <<>> -> <<full_response>>
           [] OTHER -> <<>>

NavigationKeys == {"e", "q", "Up", "Down"}

InitUI == Init /\ ~stream

NextUI ==
    \/ RunQuit
    \/ RunWaiting(CancelKeys)
    \/ RunNormal(NavigationKeys)
    \/ RunEditing(EditingKeys)
    \/ StartTurn
    \/ EndTurn
    \/ RecvDelta(CancelKeys)
    \/ RecvError
    \/ RecvClosed
    \/ Tick(CancelKeys)
    \/ \E k \in Turns : Task(k)

SpecUI == InitUI /\ [][NextUI]_vars

\* C19: the selected index is below messages.len() when there are messages and
\* 0 when there are none; a pass of Interface::run in Normal mode moves it by at
\* most one (Up one down to 0, Down one up to messages.len() - 1), and no other
\* step moves it off the messages.
C19_SelectionInBounds ==
    /\ [](IF Msgs = <<>> THEN ui.selected = 0 ELSE ui.selected < Len(Msgs))
    /\ [][(mpc = "run" /\ ui.input_mode = "Normal" /\ ~ui.quit /\ mpc' = "run")
           => \/ ui'.selected = ui.selected
              \/ ui'.selected = ui.selected - 1
              \/ ui'.selected = ui.selected + 1 /\ ui'.selected <= Len(Msgs) - 1]_vars

\* Up has moved the selection from the last of the two messages of a completed
\* turn to the first
C19_Witness ==
    /\ mpc = "run"
    /\ outcome = "completed"
    /\ Len(Msgs) = 2
    /\ ui.selected = 0
    /\ ui.input_mode = "Normal"

\* C20: with the input pane TermInputWidth wide, horizontal_scroll is at most
\* max_scroll, the input length less the pane's width (0 when that is negative).
C20_HorizontalScrollInBounds ==
    ui.horizontal_scroll <= SatSub(Len(ui.input), TermInputWidth)

\* ----------------------------------------------- drawing one message
\* The closure Renderer::render maps over ui_state.messages, for a message of any
\* role, in any input mode, in a message pane of any width up to MaxPaneWidth:
\* a system message drawn in Waiting mode takes the next frame of the spinner,
\* and the wrap width is the inner width minus the prefix length. After a panic,
\* of next_frame or of the subtraction, nothing is drawn any more.
RenderMessage ==
    /\ lay.available_width # Panicked
    /\ \E w \in 0..MaxPaneWidth, role \in Roles, mode \in Modes :
          LET width(a) == [drawn |-> TRUE, inner |-> InnerWidth(w), role |-> role,
                           mode |-> mode, available_width |-> a]
              widths == \E a \in UsizeSub(InnerWidth(w), Len(Prefix(role))) :
                            lay' = width(a)
          IN  IF role = "system" /\ mode = "Waiting"
              THEN IF next_frame(spinner).panic
                   THEN /\ lay' = width(Panicked)
                        /\ UNCHANGED <<spinner, shown>>
                   ELSE /\ Len(shown) < MaxFrames
                        /\ spinner' = next_frame(spinner).state
                        /\ shown' = Append(shown, next_frame(spinner).ret)
                        /\ widths
              ELSE /\ UNCHANGED <<spinner, shown>>
                   /\ widths
    /\ UNCHANGED md
    /\ UNCHANGED mainVars
    /\ UNCHANGED taskVars
    /\ UNCHANGED termVars
    /\ UNCHANGED stream

NextView == RenderMessage

SpecView == Init /\ [][NextView]_vars

\* C21: the frames next_frame returns from Spinner::new() on repeat with period
\* 10 and no shorter period, no two consecutive frames are equal, and the
\* spinner's position is always one of 0..9.
C21_SpinnerPeriodTen ==
    /\ spinner.current \in 0..9
    /\ \A i \in 1..Len(shown) :
          /\ i + 1 <= Len(shown) => shown[i + 1] # shown[i]
          /\ i + 10 <= Len(shown) => shown[i + 10] = shown[i]
          /\ \A p \in 1..9 : i + p <= Len(shown) => shown[i + p] # shown[i]

\* eleven frames have been drawn, the eleventh being the first again
C21_Witness == Len(shown) >= 11 /\ shown[11] = shown[1] /\ spinner.current = Len(shown) % 10

\* C26: the wrap width of a drawn message is its pane's inner width minus the
\* length of its role's prefix, clamped to 0: the subtraction neither panics
\* nor wraps around.
C26_WrapWidthClamped ==
    lay.drawn =>
        lay.available_width = Value(SatSub(lay.inner, Len(Prefix(lay.role))))

\* ------------------------------------------------------ the queue at capacity
\* what is still to come of a long streamed body
TailBodies == {<<"a", NL>>, <<"a", NL, "b", NL>>, <<"b", "D", NL>>}

\* The task of the first request has decoded the lines of a long streamed body
\* faster than process_response takes them: the queue holds ChannelCapacity
\* deltas, or one less, none of them received yet, and the body goes on.
InitFull ==
    /\ ui = start_new_response(Submitted)
    /\ mpc = "response"
    /\ message = <<>>
    /\ full_response = <<>>
    /\ turn = 1
    /\ stream = TRUE
    /\ ppc = [k \in Turns |-> IF k = 1 THEN "stream" ELSE "unborn"]
    /\ buffer = [k \in Turns |-> <<>>]
    /\ \E n \in {ChannelCapacity - 1, ChannelCapacity} :
          /\ chan = [k \in Turns |-> IF k = 1 THEN [i \in 1..n |-> OkItem(1, <<"a">>)]
                                              ELSE <<>>]
          /\ emitted = [i \in 1..n |-> OkItem(1, <<"a">>)]
    /\ rxAlive = [k \in Turns |-> k = 1]
    /\ \E b \in TailBodies : body = [k \in Turns |-> IF k = 1 THEN b ELSE <<>>]
    /\ applied = <<>>
    /\ outcome = "running"
    /\ skips = <<>>
    /\ pending = NoKey
    /\ typed = <<>>
    /\ ViewIdle

SpecFull == InitFull /\ [][NextDecode]_vars

\* the task's next pass of the line loop has a delta to enqueue
AboutToEnqueue(k) ==
    /\ ppc[k] = "lines"
    /\ NewlinePos(buffer[k], 1) # 0
    /\ JsonOk(FirstLine(buffer[k]))
    /\ JsonContent(FirstLine(buffer[k])) # <<>>

\* C22: when the task has a delta to enqueue, the Receiver is alive and the
\* queue holds ChannelCapacity items, the task's attempt fails: its next step is
\* the one that returns the error.
C22_FullQueueIsError ==
    \A k \in Turns :
        (AboutToEnqueue(k) /\ rxAlive[k] /\ Len(chan[k]) = ChannelCapacity)
            => ENABLED (LineStep(k) /\ ppc'[k] = "err")

\* C23: every step of a process_message task leaves ui_state (messages,
\* current_response, the mode, the input, the scroll positions, quit) as it is,
\* and leaves every queue as it is except that it may append one item to its
\* own; so every change of ui_state is made by a step of main.
C23_TaskOnlyEnqueues ==
    [][\A k \in Turns :
          Task(k) =>
              /\ ui' = ui
              /\ \A j \in Turns \ {k} : chan'[j] = chan[j]
              /\ \/ chan'[k] = chan[k]
                 \/ /\ Len(chan'[k]) = Len(chan[k]) + 1
                    /\ SubSeq(chan'[k], 1, Len(chan[k])) = chan[k]
                    /\ Last(chan'[k]).from = k]_vars

\* the task has enqueued two deltas and ended while process_response has not
\* received any: ui_state is still as start_new_response left it
C23_Witness ==
    /\ mpc = "response"
    /\ Len(emitted) = 2
    /\ applied = <<>>
    /\ TaskEnded(turn)
    /\ ui = start_new_response(Submitted)

\* C28: in Normal mode, of the drawn state, the key 'e' changes the mode to
\* Editing and nothing else, 'q' sets quit and nothing else, and '?' flips the
\* help flag and nothing else.
C28_NormalKeysChangeOneField ==
    [][/\ RunNormal({"e"}) => ui' = [draw(ui) EXCEPT !.input_mode = "Editing"]
       /\ RunNormal({"q"}) => ui' = [draw(ui) EXCEPT !.quit = TRUE]
       /\ RunNormal({"?"}) => ui' = [draw(ui) EXCEPT !.show_toggle = ~ui.show_toggle]
       /\ RunNormal({"e", "q", "?"}) =>
              /\ ui'.messages = ui.messages
              /\ ui'.input = ui.input
              /\ ui'.selected = ui.selected
              /\ ui'.horizontal_scroll = ui.horizontal_scroll
              /\ ui'.current_response = ui.current_response
              /\ mpc' = mpc /\ message' = message]_vars

\* after a turn, with text left in the input, the help flag was flipped and
\* then 'q' was pressed
C28_Witness ==
    /\ ui.quit
    /\ ui.show_toggle
    /\ ui.input_mode = "Normal"
    /\ ui.input = <<"a">>
    /\ Len(Msgs) = 2

\* C29: Escape in Editing mode puts the mode back to Normal and nothing else:
\* Interface::run returns no message, messages and the input are as they were.
C29_EditingEscapeKeepsInput ==
    [][EditingPass({"Esc"}, MaxKeys) =>
          /\ ui' = [draw(ui) EXCEPT !.input_mode = "Normal"]
          /\ ui'.input = ui.input
          /\ ui'.messages = ui.messages
          /\ mpc' = "run"
          /\ message' = message]_vars

\* two characters were typed and Escape was pressed
C29_Witness ==
    /\ ui.input_mode = "Normal"
    /\ Len(ui.input) = 2
    /\ typed = ui.input
    /\ mpc = "run"
    /\ Msgs = <<>>

\* a message that stands for a response still to come
IsPlaceholder(m) == m = GeneratingMsg \/ m = <<"assistant", <<>>>>

\* C30: when Interface::run handles Escape in Waiting mode, the mode becomes
\* Normal, exactly the last message is removed, and no placeholder remains at
\* the tail of messages.
C30_EscapeDiscardsPlaceholder ==
    [][(mpc = "run" /\ ui.input_mode = "Waiting" /\ ui'.input_mode = "Normal")
          => /\ ui.messages # <<>>
             /\ ui'.messages = Front(ui.messages)
             /\ (ui'.messages # <<>> => ~IsPlaceholder(Last(ui'.messages)))]_vars

\* ------------------------------------------------ rendering one markdown text
\* every text of one to MaxText characters
MdTexts == UNION {[1..n -> MdChars] : n \in 1..MaxText}

\* The event sequences of markdown texts without code blocks, t being any text:
\* a paragraph; bold text followed by plain text; emphasis inside strong;
\* strong inside strong; a list item; an item of a nested list; a paragraph with
\* inline code, a soft break and a hard break.
MdInputs ==
    LET A == TextEv(<<"a">>)
    IN  UNION {
          { <<Ev("StartParagraph"), TextEv(t), Ev("EndParagraph")>>,
            <<Ev("StartParagraph"), Ev("StartStrong"), TextEv(<<"a", "a">>),
              Ev("EndStrong"), TextEv(t), Ev("EndParagraph")>>,
            <<Ev("StartParagraph"), Ev("StartStrong"), TextEv(t), Ev("StartEmphasis"),
              A, Ev("EndEmphasis"), Ev("EndStrong"), Ev("EndParagraph")>>,
            <<Ev("StartParagraph"), Ev("StartStrong"), A, Ev("StartStrong"), TextEv(t),
              Ev("EndStrong"), A, Ev("EndStrong"), Ev("EndParagraph")>>,
            <<Ev("StartList"), Ev("StartItem"), TextEv(t), Ev("EndItem"), Ev("EndList")>>,
            <<Ev("StartList"), Ev("StartItem"), A, Ev("StartList"), Ev("StartItem"),
              TextEv(t), Ev("EndItem"), Ev("EndList"), Ev("EndItem"), Ev("EndList")>>,
            <<Ev("StartParagraph"), TextEv(t), CodeEv(<<"a">>), Ev("SoftBreak"), A,
              Ev("HardBreak"), A, Ev("EndParagraph")>> } : t \in MdTexts }

\* render_markdown is called, during the first draw of an assistant message,
\* with any of the inputs and any width of 1 to MaxWidth.
InitMarkdown ==
    /\ ui = StateNew
    /\ mpc = "run"
    /\ message = <<>>
    /\ full_response = <<>>
    /\ turn = 0
    /\ stream = FALSE
    /\ ppc = [k \in Turns |-> "unborn"]
    /\ buffer = [k \in Turns |-> <<>>]
    /\ chan = [k \in Turns |-> <<>>]
    /\ rxAlive = [k \in Turns |-> FALSE]
    /\ body = [k \in Turns |-> <<>>]
    /\ emitted = <<>>
    /\ applied = <<>>
    /\ outcome = "none"
    /\ skips = <<>>
    /\ pending = NoKey
    /\ typed = <<>>
    /\ spinner = SpinnerNew
    /\ shown = <<>>
    /\ lay = NoLayout
    /\ \E events \in MdInputs, width \in 1..MaxWidth : md = MarkdownStart(events, width)

\* render_markdown handles the parser's next event.
MdEvent ==
    /\ md.pc = "events"
    /\ md.events # <<>>
    /\ md' = [OnEvent(md, Head(md.events)) EXCEPT !.events = Tail(md.events)]
    /\ UNCHANGED <<spinner, shown, lay, stream>>
    /\ UNCHANGED mainVars
    /\ UNCHANGED taskVars
    /\ UNCHANGED termVars

\* One pass of add_text_to_line's loop; MaxLines lines are explored.
MdPass ==
    /\ md.pc = "text"
    /\ Len(md.lines) < MaxLines
    /\ md' = AddTextPass(md)
    /\ UNCHANGED <<spinner, shown, lay, stream>>
    /\ UNCHANGED mainVars
    /\ UNCHANGED taskVars
    /\ UNCHANGED termVars

\* The parser has no more events: the last flush_line, the empty lines at the
\* end are popped, and lines is returned.
MdReturn ==
    /\ md.pc = "events"
    /\ md.events = <<>>
    /\ md' = [flush_line(md) EXCEPT !.lines = PopEmptyLines(@), !.pc = "done"]
    /\ UNCHANGED <<spinner, shown, lay, stream>>
    /\ UNCHANGED mainVars
    /\ UNCHANGED taskVars
    /\ UNCHANGED termVars

NextMarkdown == MdEvent \/ MdPass \/ MdReturn

SpecMarkdown == InitMarkdown /\ [][NextMarkdown]_vars

\* render_markdown is a sequential function: it keeps running.
SpecMarkdownRuns == SpecMarkdown /\ WF_vars(NextMarkdown)

\* C24: no line render_markdown has pushed is wider than the width it was
\* called with.
C24_LinesFitWidth ==
    \A i \in 1..Len(md.lines) : LineWidth(md.lines[i]) <= md.width

\* C25: render_markdown returns, as far as it is followed here: it reaches its
\* return or has pushed MaxLines lines.
C25_RenderTerminates == <>(md.pc = "done" \/ Len(md.lines) >= MaxLines)

\* all spans pushed so far
MdSpans == Concat(md.lines) \o md.current_line

\* C27: every span of a Text event emitted while a Strong tag is open carries
\* BOLD, and every one emitted while an Emphasis tag is open carries ITALIC.
C27_OpenTagsDecorate ==
    \A i \in 1..Len(MdSpans) :
        MdSpans[i].by = "text" =>
            /\ "Strong" \in MdSpans[i].open => "BOLD" \in MdSpans[i].style.add
            /\ "Emphasis" \in MdSpans[i].open => "ITALIC" \in MdSpans[i].style.add

\* ------------------------------------- a Spinner of either constructor
\* The interface draws with a State whose spinner was made by Spinner::new() or
\* by the derived Default.
InitSpinner ==
    /\ ui = StateNew
    /\ mpc = "run"
    /\ message = <<>>
    /\ full_response = <<>>
    /\ turn = 0
    /\ stream \in BOOLEAN
    /\ ppc = [k \in Turns |-> "unborn"]
    /\ buffer = [k \in Turns |-> <<>>]
    /\ chan = [k \in Turns |-> <<>>]
    /\ rxAlive = [k \in Turns |-> FALSE]
    /\ body = [k \in Turns |-> <<>>]
    /\ emitted = <<>>
    /\ applied = <<>>
    /\ outcome = "none"
    /\ skips = <<>>
    /\ pending = NoKey
    /\ typed = <<>>
    /\ spinner \in {SpinnerNew, SpinnerDefault}
    /\ shown = <<>>
    /\ lay = NoLayout
    /\ md = NoMarkdown

SpecSpinner == InitSpinner /\ [][NextView]_vars

\* C40: when a system message has been drawn in Waiting mode, which calls
\* next_frame, with a Spinner of either constructor, the call did not panic and
\* returned a glyph of the ten-glyph cycle of Spinner::new().
C40_DefaultSpinnerCycles ==
    (lay.drawn /\ lay.role = "system" /\ lay.mode = "Waiting")
        => /\ lay.available_width # Panicked
           /\ spinner.frames = SpinnerFrames
           /\ shown # <<>>
           /\ \E i \in 1..10 : Last(shown) = SpinnerFrames[i]

\* ------------------------------------------- every key in every mode
\* what the task of a request that is not streamed has enqueued when it ends
QueuedAnswers == {<<>>, <<OkItem(1, <<"a">>)>>, <<ErrItem(1, "Network")>>}

\* main enters process_response for the first request, whose task has already
\* ended, with its answer in the queue.
InitAnswered ==
    /\ ui = start_new_response(Submitted)
    /\ mpc = "response"
    /\ message = <<>>
    /\ full_response = <<>>
    /\ turn = 1
    /\ stream = FALSE
    /\ ppc = [k \in Turns |-> IF k = 1 THEN "ok" ELSE "unborn"]
    /\ buffer = [k \in Turns |-> <<>>]
    /\ \E q \in QueuedAnswers :
          /\ chan = [k \in Turns |-> IF k = 1 THEN q ELSE <<>>]
          /\ emitted = q
    /\ rxAlive = [k \in Turns |-> k = 1]
    /\ body = [k \in Turns |-> <<>>]
    /\ applied = <<>>
    /\ outcome = "running"
    /\ skips = <<>>
    /\ pending = NoKey
    /\ typed = <<>>
    /\ ViewIdle

\* Interface::run from startup until the first Enter, and the first turn from
\* the entry of process_response on and Interface::run after it, with any key
\* at every key read.
InitKeys == Init \/ InitAnswered

NextKeys ==
    \/ RunQuit
    \/ RunNormal(Keys)
    \/ EditingPass(Keys, MaxKeys)
    \/ RunWaiting(Keys)
    \/ RecvDelta(Keys)
    \/ RecvError
    \/ RecvClosed
    \/ Tick(Keys)
    \/ EndTurn

SpecKeys == InitKeys /\ [][NextKeys]_vars

\* the keys without a binding in each mode
UnboundNormal == Keys \ {"q", "?", "e", "Up", "Down"}
UnboundWaiting == Keys \ {"Esc"}
UnboundEditing == Keys \ (Chars \cup {"Backspace", "Enter", "Esc", "Left", "Right"})

\* ui_state without what the renderer writes
Conversation(s) == [s EXCEPT !.input_width = 0]

\* C31: a pass of Interface::run or of Interface::update that reads a key
\* without a binding in the current mode leaves the conversation state as it
\* is, and run returns nothing; in process_response the step is the one taken
\* when no key is read.
C31_UnboundKeysAreNoOps ==
    [][/\ RunNormal(UnboundNormal) => Conversation(ui') = Conversation(ui)
       /\ RunWaiting(UnboundWaiting) => Conversation(ui') = Conversation(ui)
       /\ EditingPass(UnboundEditing, MaxKeys) =>
              /\ Conversation(ui') = Conversation(ui)
              /\ mpc' = mpc /\ message' = message
       /\ Tick(UnboundWaiting) =>
              /\ Conversation(ui') = Conversation(ui)
              /\ mpc' = mpc /\ outcome' = outcome
       /\ RecvDelta(UnboundWaiting) => RecvDeltaKey(NoKey)]_vars

\* Interface::run is in its Waiting branch, where only Escape is bound, after a
\* turn in which nothing arrived
C31_Witness ==
    /\ mpc = "run"
    /\ ui.input_mode = "Waiting"
    /\ outcome = "completed"
    /\ Len(Msgs) = 3
    /\ Last(Msgs) = <<"assistant", <<>>>>

\* C32: the mode becomes Waiting only by the pass of Interface::run that
\* handles Enter in Editing mode, which appends the "Generating..." entry and
\* returns the message to main; and main applies start_new_response only in
\* that state, the mode being Waiting already.
C32_WaitingOnlyByEnter ==
    [][/\ (ui.input_mode # "Waiting" /\ ui'.input_mode = "Waiting")
          => /\ ui.input_mode = "Editing"
             /\ EditingPass({"Enter"}, MaxInput)
             /\ mpc' = "spawn"
             /\ Last(ui'.messages) = GeneratingMsg
       /\ StartTurn
          => /\ ui.input_mode = "Waiting"
             /\ Last(ui.messages) = GeneratingMsg
             /\ ui'.input_mode = "Waiting"]_vars

\* start_new_response has been applied to a submission
C32_Witness ==
    /\ turn = 1
    /\ mpc = "response"
    /\ ui = start_new_response(Submitted)

\* C33: once quit is true it stays true; while it is true no step changes the
\* conversation state or issues a request, and the one step main takes is the
\* return of None from Interface::run, which ends the program; and quit becomes
\* true only in Interface::run in Normal mode.
C33_QuitIsFinal ==
    [][/\ ui.quit
          => /\ ui'.quit
             /\ Conversation(ui') = Conversation(ui)
             /\ turn' = turn
             /\ mpc = "run"
             /\ mpc' \in {"run", "exited"}
             /\ mainVars' # mainVars => mpc' = "exited"
       /\ (~ui.quit /\ ui'.quit)
          => /\ ui.input_mode = "Normal"
             /\ mpc = "run"
             /\ mpc' = "run"]_vars

\* the program has ended by 'q' after a turn, whose task may still be running
C33_Witness ==
    /\ ui.quit
    /\ mpc = "exited"
    /\ turn = 1
    /\ Len(Msgs) >= 2

\* --------------------------------------- State through its public interface
\* the messages a caller pushes
PushedMessages == {<<"user", <<"q">>>>, <<"assistant", <<"a">>>>, GeneratingMsg}

\* a call that replaces ui_state and nothing else
StateCall(s) ==
    /\ ui' = s
    /\ UNCHANGED <<mpc, message, full_response, turn, rxAlive, applied, outcome, stream>>
    /\ UNCHANGED taskVars
    /\ UNCHANGED termVars
    /\ UNCHANGED viewVars

\* ui_state.update_response("a")
CallUpdateResponse ==
    /\ Len(ui.messages) < MaxMsgs
    /\ Len(ui.current_response) < MaxMsgs
    /\ StateCall(update_response(ui, <<"a">>))

\* ui_state.add_response(response)
CallAddResponse ==
    /\ Len(ui.messages) < MaxMsgs
    /\ \E response \in {<<>>, <<"a">>} : StateCall(add_response(ui, response))

\* ui_state.start_new_response()
CallStartNewResponse ==
    /\ Len(ui.messages) < MaxMsgs
    /\ StateCall(start_new_response(ui))

\* ui_state.scroll_up(), ui_state.scroll_down()
CallScroll == StateCall(scroll_up(ui)) \/ StateCall(scroll_down(ui))

\* the public fields input_mode and messages are written directly
SetMode == \E mode \in Modes : StateCall([ui EXCEPT !.input_mode = mode])

PushMessage ==
    /\ Len(ui.messages) < MaxMsgs
    /\ \E m \in PushedMessages : StateCall([ui EXCEPT !.messages = Append(@, m)])

NextState ==
    \/ CallUpdateResponse
    \/ CallAddResponse
    \/ CallStartNewResponse
    \/ CallScroll
    \/ SetMode
    \/ PushMessage

\* State::new() and then any calls, MaxMsgs messages at most
SpecState == Init /\ [][NextState]_vars

\* C34: update_response called when the mode is not Waiting changes nothing of
\* ui_state; called in Waiting mode it appends the delta to current_response
\* and makes the last message the assistant message with that content, the
\* selection staying where it is.
C34_UpdateOnlyWhileWaiting ==
    [][CallUpdateResponse =>
          IF ui.input_mode # "Waiting"
          THEN ui' = ui
          ELSE /\ ui'.current_response = ui.current_response \o <<"a">>
               /\ Last(ui'.messages) = <<"assistant", ui'.current_response>>
               /\ ui'.selected = ui.selected
               /\ ui'.input_mode = "Waiting"]_vars

\* text was accumulated in Waiting mode and the mode is Normal now, where
\* update_response leaves the accumulator and the messages as they are
C34_Witness ==
    /\ ui.input_mode = "Normal"
    /\ ui.current_response = <<"a">>
    /\ Msgs = << <<"user", <<"q">>>>, <<"assistant", <<"a">>>> >>
    /\ update_response(ui, <<"a">>) = ui

\* The deltas of a byte sequence taken as a whole: line after line up to the
\* last newline, the content of every JSON line, ending with a done line.
RECURSIVE DecodeWhole(_)
DecodeWhole(bytes) ==
    LET pos == NewlinePos(bytes, 1)
        line == SubSeq(bytes, 1, pos - 1)
        rest == SubSeq(bytes, pos + 1, Len(bytes))
    IN  IF pos = 0 THEN <<>>
        ELSE IF ~JsonOk(line) THEN DecodeWhole(rest)
        ELSE JsonContent(line) \o (IF JsonDone(line) THEN <<>> ELSE DecodeWhole(rest))

\* the deltas still to come from the bytes the task has not decoded yet
DeltasToCome(k) ==
    IF TaskEnded(k) THEN <<>> ELSE DecodeWhole(buffer[k] \o body[k])

\* C35: whatever the chunks are, each step of the streaming task that is not a
\* failure (of a chunk, or of a send to a dropped Receiver) keeps the deltas
\* emitted so far followed by the deltas of the bytes not yet decoded, taken as
\* a whole, the same: the deltas, their order and the end point depend on the
\* bytes only.
C35_ChunkingIndependent ==
    [][(turn' = turn /\ ppc'[turn] # "err")
          => Vals(emitted') \o DeltasToCome(turn)' = Vals(emitted) \o DeltasToCome(turn)]_vars

\* the first chunk ended in the middle of the second line
C35_Witness ==
    /\ ppc[turn] = "stream"
    /\ buffer[turn] = <<"b">>
    /\ body[turn] = <<NL>>
    /\ Vals(emitted) = << <<"a">> >>

\* C36: when the byte stream is exhausted the task ends without decoding what
\* is left in its buffer after the last newline: that step enqueues nothing,
\* and nothing is enqueued afterwards.
C36_UnterminatedTailIgnored ==
    [][\A k \in Turns :
          /\ (ppc[k] = "stream" /\ body[k] = <<>> /\ ppc'[k] # ppc[k])
             => /\ ppc'[k] \in {"ok", "err"}
                /\ chan'[k] = chan[k]
                /\ buffer'[k] = buffer[k]
                /\ (k = turn => emitted' = emitted)
          /\ (ppc[k] = "ok" /\ buffer[k] # <<>>)
             => /\ Len(chan'[k]) <= Len(chan[k])
                /\ ((k = turn /\ turn' = turn) => emitted' = emitted)]_vars

\* the stream ended with a JSON object carrying content and done in the buffer,
\* not followed by a newline
C36_Witness ==
    /\ ppc[turn] = "ok"
    /\ body[turn] = <<>>
    /\ buffer[turn] = <<"a", "D">>
    /\ emitted = <<>>
    /\ outcome = "completed"


\* ------------------------------------------- two turns, the first one orphaned
\* ui_state when Escape has cancelled the first request at once
Cancelled == add_response(update(start_new_response(Submitted), "Esc").state, RequestCancelled)

\* ui_state when a second message, again an empty one, has been submitted
Resubmitted == handle_editing_mode(draw(handle_normal_mode(draw(Cancelled), "e")), "Enter").state

\* the first turn and the one after it
TwoTurns == {1, 2}

\* main has spawned the task of the second request and enters process_response;
\* the first request was cancelled before its task got an answer, so that task
\* still runs, and the Receiver of its queue is dropped.
InitOrphan ==
    /\ ui = start_new_response(Resubmitted)
    /\ mpc = "response"
    /\ message = <<>>
    /\ full_response = <<>>
    /\ turn = 2
    /\ stream \in BOOLEAN
    /\ ppc = [k \in TwoTurns |-> "request"]
    /\ buffer = [k \in TwoTurns |-> <<>>]
    /\ chan = [k \in TwoTurns |-> <<>>]
    /\ rxAlive = [k \in TwoTurns |-> k = 2]
    /\ body = [k \in TwoTurns |-> <<>>]
    /\ emitted = <<>>
    /\ applied = <<>>
    /\ outcome = "running"
    /\ skips = <<>>
    /\ pending = NoKey
    /\ typed = <<>>
    /\ ViewIdle

NextOrphan ==
    \/ EndTurn
    \/ RecvDelta(CancelKeys)
    \/ RecvError
    \/ RecvClosed
    \/ Tick(CancelKeys)
    \/ \E k \in TwoTurns : Task(k)

SpecOrphan == InitOrphan /\ [][NextOrphan]_vars

\* C37: turns are isolated. A step of the task of turn k changes no queue but
\* its own and never the messages; every item in the queue of turn j was put
\* there by the task of turn j; and items are only taken from the queue of the
\* current turn. So nothing the task of an ended turn emits reaches the
\* messages of a later turn.
C37_TurnsAreIsolated ==
    [][/\ \A k \in TwoTurns :
            Task(k) => /\ ui' = ui
                       /\ full_response' = full_response
                       /\ \A j \in TwoTurns \ {k} : chan'[j] = chan[j]
       /\ \A j \in TwoTurns : \A i \in 1..Len(chan'[j]) : chan'[j][i].from = j
       /\ \A j \in TwoTurns : Len(chan'[j]) < Len(chan[j]) => j = turn]_vars

\* The orphaned task of turn 1 has run into its failed enqueue while turn 2
\* has applied a delta of its own task.
C37_Witness ==
    /\ turn = 2
    /\ ppc[1] = "err"
    /\ ~rxAlive[1]
    /\ applied # <<>>
    /\ applied[1].from = 2


\* C38: a task whose Receiver is dropped is never kept waiting by the queue:
\* while it runs it always has a step to take, and when it has a delta to
\* enqueue, its step is the one that returns the error and no other, also when
\* the queue held ChannelCapacity items at the time the Receiver was dropped.
C38_OrphanNeverBlocks ==
    \A k \in Turns :
        (~rxAlive[k] /\ ppc[k] \in {"request", "stream", "lines"})
            => /\ ENABLED Task(k)
               /\ AboutToEnqueue(k)
                    => /\ ENABLED (LineStep(k) /\ ppc'[k] = "err")
                       /\ ~ENABLED (LineStep(k) /\ ppc'[k] # "err")

\* The turn was cancelled with ChannelCapacity deltas in the queue, none of them
\* received, and the enqueue the task was waiting with has failed.
C38_Witness ==
    /\ ~rxAlive[1]
    /\ outcome = "cancelled"
    /\ applied = <<>>
    /\ full_response = <<>>
    /\ Len(emitted) = ChannelCapacity
    /\ ppc[1] = "err"
    /\ body[1] = <<>>
    /\ buffer[1] = <<"b", NL>>


\* ------------------------------------------ two turns, answered in one piece
\* startup, with room for two turns and config.stream off
InitTwo ==
    /\ ui = StateNew
    /\ mpc = "run"
    /\ message = <<>>
    /\ full_response = <<>>
    /\ turn = 0
    /\ stream = FALSE
    /\ ppc = [k \in TwoTurns |-> "unborn"]
    /\ buffer = [k \in TwoTurns |-> <<>>]
    /\ chan = [k \in TwoTurns |-> <<>>]
    /\ rxAlive = [k \in TwoTurns |-> FALSE]
    /\ body = [k \in TwoTurns |-> <<>>]
    /\ emitted = <<>>
    /\ applied = <<>>
    /\ outcome = "none"
    /\ skips = <<>>
    /\ pending = NoKey
    /\ typed = <<>>
    /\ ViewIdle

NextTwo ==
    \/ RunQuit
    \/ RunWaiting(CancelKeys)
    \/ RunNormal(NormalKeys)
    \/ RunEditing(EditingKeys)
    \/ SpawnTurn(2)
    \/ EndTurn
    \/ RecvDelta(CancelKeys)
    \/ RecvError
    \/ RecvClosed
    \/ Tick(CancelKeys)
    \/ \E k \in TwoTurns : Task(k)

SpecTwo == InitTwo /\ [][NextTwo]_vars

\* the user's messages among msgs, in their order
UserMessages(msgs) == SelectSeq(msgs, LAMBDA m : m[1] = "user")

\* C39: every step leaves each user message where it is in messages, with its
\* text; and the user messages after the step are those before it, in the same
\* order, or those followed by one new message that holds the submitted input.
C39_UserMessagesPermanent ==
    [][/\ \A i \in 1..Len(Msgs) :
             Msgs[i][1] = "user"
                => /\ i <= Len(ui'.messages)
                   /\ ui'.messages[i] = Msgs[i]
       /\ \/ UserMessages(ui'.messages) = UserMessages(Msgs)
          \/ /\ mpc = "run"
             /\ ui.input_mode = "Editing"
             /\ UserMessages(ui'.messages) = Append(UserMessages(Msgs), <<"user", ui.input>>)]_vars

\* Two messages were submitted, "a" and then the empty one; the first turn was
\* answered and the second one cancelled, and both messages are there in order.
C39_Witness ==
    /\ turn = 2
    /\ mpc = "run"
    /\ outcome = "cancelled"
    /\ UserMessages(Msgs) = << <<"user", <<"a">> >>, <<"user", <<>> >> >>
    /\ Msgs[1] = <<"user", <<"a">> >>
    /\ Msgs[2][1] = "assistant"

====
